---------------------------- MODULE Spec2Model ----------------------------
(***************************************************************************)
(* Model of prefect_server/api/flows.py: flow registration with version    *)
(* groups, flow-group settings, archiving, schedule activation and the     *)
(* schedule materializer (schedule_flow_runs).                             *)
(*                                                                         *)
(* Every API call is a coroutine; each `await` on the store is one atomic  *)
(* step, and the steps of concurrent callers interleave.  A caller is a    *)
(* process p with a program counter pc[p] and its local variables loc[p].  *)
(***************************************************************************)
EXTENDS Integers, Sequences, FiniteSets, TLC

\* ------------------------------------------------------------------ bounds
MaxTime == 1          \* the wall clock runs over 0..MaxTime
MaxFlows == 2         \* create_flow calls a behaviour starts
MaxPasses == 2        \* API calls a behaviour of the scheduling scenario starts
MaxCalls == 3         \* API calls a behaviour of the lifecycle scenario starts
MaxCancels == 1       \* API calls a behaviour of the cancellation scenario starts
MaxEdits == 1         \* operations of other APIs (flow groups, runs) a behaviour has
DefaultMaxRuns == 2   \* max_runs when the caller gives None (10 in the source, scaled)
MaxTasks == 2         \* tasks of a submitted flow
MaxEdges == 2         \* edges of a submitted flow
MaxToggles == 2       \* settings calls a behaviour of the settings scenario starts

\* Concurrent callers; a new call takes the lowest free slot.
Procs == {1, 2}
Tenant == "t1"
Projects == {"proj"}
ProjectIds == {"proj", "missing"}
NoneProject == "None"           \* project_id=None (the empty id is "")
SuppliedVersionGroups == {"vgA"}

\* ------------------------------------------------------------- schedules
\* A stored schedule is JSON: null, a document that fails to deserialize, or
\* a schedule whose clock fires at every instant.  tz is the UTC offset of
\* the start_time of its events, lag how far behind the wall clock its
\* cursor is, parameter_defaults the parameter defaults of its events, and
\* clocks the keys of the parameter_defaults of each of its clocks.
NoSchedule ==
    [kind |-> "null", tz |-> 0, lag |-> 0, parameter_defaults |-> "none", clocks |-> <<>>]
BadSchedule ==
    [kind |-> "bad", tz |-> 0, lag |-> 0, parameter_defaults |-> "none", clocks |-> <<>>]
UtcSchedule ==
    [kind |-> "ok", tz |-> 0, lag |-> 0, parameter_defaults |-> "a", clocks |-> <<{"x"}>>]
ZonedSchedule ==
    [kind |-> "ok", tz |-> 1, lag |-> 1, parameter_defaults |-> "b", clocks |-> <<{"x"}>>]
\* Schedules whose clocks leave "x" without a default: one clock without
\* defaults, two clocks of which one has none, and no clock at all.
BareSchedule ==
    [kind |-> "ok", tz |-> 0, lag |-> 0, parameter_defaults |-> "none", clocks |-> <<{}>>]
MixedSchedule ==
    [kind |-> "ok", tz |-> 0, lag |-> 0, parameter_defaults |-> "a", clocks |-> <<{"x"}, {}>>]
ClocklessSchedule ==
    [kind |-> "ok", tz |-> 0, lag |-> 0, parameter_defaults |-> "none", clocks |-> <<>>]
FlowSchedules == {NoSchedule, UtcSchedule}
SubmittedSchedules ==
    {NoSchedule, UtcSchedule, BareSchedule, MixedSchedule, ClocklessSchedule}
GroupSchedules == {ZonedSchedule, BadSchedule}

\* A datetime is a local reading t in a zone off hours ahead of UTC.
Instant(dt) == dt.t - dt.off

in_tz_UTC(dt) == [t |-> Instant(dt), off |-> 0]

NoKey == [prefix |-> "", time |-> [t |-> 0, off |-> 0]]

\* The key without the conversion to UTC.
IdempotencyKeyLocal(start_time) == [prefix |-> "auto-scheduled:", time |-> start_time]

IdempotencyKey(start_time) == [prefix |-> "auto-scheduled:", time |-> in_tz_UTC(start_time)]

\* flow_schedule.next(n, return_events=True): the n events after the cursor.
schedule_next(s, t, n) ==
    [i \in 1..n |-> [start_time |-> [t |-> t - s.lag + i + s.tz, off |-> s.tz],
                     parameter_defaults |-> s.parameter_defaults]]

Max(S) == CHOOSE x \in S : \A y \in S : y <= x

Range(q) == {q[i] : i \in DOMAIN q}

Uuid(n) == "uuid" \o ToString(n)

DefaultSettings ==
    [heartbeat_enabled |-> TRUE, lazarus_enabled |-> TRUE, version_locking_enabled |-> FALSE]

\* None where an integer or an id is expected, and the empty string as an id.
NoneInt == -1
EmptyId == 0

\* ----------------------------------------------------------- submissions
\* A serialized flow: the slugs of its tasks, its edges (up to their order),
\* its parameters, its schedule, the declared reference tasks and
\* environment["__version__"] (NoneInt when absent).
Slug(i) == "task" \o ToString(i)
Slugs == {Slug(i) : i \in 1..MaxTasks}
TaskLists == {[i \in 1..n |-> Slug(i)] : n \in 0..MaxTasks}
Edges == [upstream_task : Slugs, downstream_task : Slugs, mapped : BOOLEAN]

RECURSIVE EdgeSets(_)
EdgeSets(n) ==
    IF n = 0 THEN {{}}
    ELSE LET smaller == EdgeSets(n - 1)
         IN  smaller \cup {E \cup {e} : E \in smaller, e \in Edges}

EdgeLists == EdgeSets(MaxEdges)
ReferenceLists == {{}} \cup {{slug} : slug \in Slugs}
ParameterLists ==
    {<<>>,
     <<[name |-> "x", required |-> TRUE]>>,
     <<[name |-> "x", required |-> FALSE]>>,
     <<[name |-> "x", required |-> TRUE], [name |-> "y", required |-> TRUE]>>}

\* config.core_version_cutoff, and the versions a flow may have been built with.
core_version_cutoff == 1
CoreVersions == {NoneInt, 0, 1}

\* The flow with one task and nothing else that the scenarios register.
SimpleFlow(schedule) ==
    [tasks |-> <<Slug(1)>>, edges |-> {}, parameters |-> <<>>, schedule |-> schedule,
     reference_tasks |-> {}, core_version |-> NoneInt]

\* Submissions that vary the graph, and submissions that vary the
\* parameters, the schedule and the core version.
GraphSubmissions ==
    {[SimpleFlow(NoSchedule) EXCEPT !.tasks = tasks, !.edges = edges,
                                    !.reference_tasks = reference_tasks]
        : tasks \in TaskLists, edges \in EdgeLists, reference_tasks \in ReferenceLists}

ScheduleSubmissions ==
    {[SimpleFlow(schedule) EXCEPT !.parameters = parameters, !.core_version = core_version]
        : schedule \in SubmittedSchedules, parameters \in ParameterLists,
          core_version \in CoreVersions}

Submissions == GraphSubmissions \cup ScheduleSubmissions

\* core_version and parse(core_version) < parse(config.core_version_cutoff)
BelowCutoff(flow) == flow.core_version # NoneInt /\ flow.core_version < core_version_cutoff

\* The check passing as soon as the defaults of one clock cover the names.
UncoveredByAll(flow) ==
    LET required_names == {flow.parameters[i].name :
                              i \in {j \in DOMAIN flow.parameters : flow.parameters[j].required}}
    IN  /\ flow.schedule # NoSchedule
        /\ required_names # {}
        /\ ~\E c \in DOMAIN flow.schedule.clocks : required_names \subseteq flow.schedule.clocks[c]

\* A required parameter that the defaults of some clock do not cover.
Uncovered(flow) ==
    LET required_parameters ==
            {flow.parameters[i] : i \in {j \in DOMAIN flow.parameters :
                                            flow.parameters[j].required}}
        required_names == {q.name : q \in required_parameters}
    IN  /\ flow.schedule # NoSchedule
        /\ required_parameters # {}
        /\ ~\A c \in DOMAIN flow.schedule.clocks : required_names \subseteq flow.schedule.clocks[c]

tasks_with_upstreams(flow) == {e.downstream_task : e \in flow.edges}

tasks_with_downstreams(flow) == {e.upstream_task : e \in flow.edges}

\* The declared reference tasks together with the terminal tasks.
reference_tasks_and_terminal(flow) ==
    flow.reference_tasks
       \cup {flow.tasks[i] : i \in {j \in DOMAIN flow.tasks :
                                      flow.tasks[j] \notin tasks_with_downstreams(flow)}}

\* set(flow.reference_tasks) or the terminal tasks
reference_tasks(flow) ==
    IF flow.reference_tasks # {}
    THEN flow.reference_tasks
    ELSE {flow.tasks[i] : i \in {j \in DOMAIN flow.tasks :
                                    flow.tasks[j] \notin tasks_with_downstreams(flow)}}

\* The task rows with the flags create_flow sets.
TaskRows(flow) ==
    [i \in DOMAIN flow.tasks |->
        LET slug == flow.tasks[i]
        IN  [slug |-> slug,
             mapped |-> \E e \in flow.edges : e.downstream_task = slug /\ e.mapped,
             is_reference_task |-> slug \in reference_tasks(flow),
             is_root_task |-> slug \notin tasks_with_upstreams(flow),
             is_terminal_task |-> slug \notin tasks_with_downstreams(flow)]]

\* task_lookup[e.upstream_task] or task_lookup[e.downstream_task] has no entry.
UnknownSlug(flow) ==
    \E e \in flow.edges : \/ e.upstream_task \notin {flow.tasks[i] : i \in DOMAIN flow.tasks}
                           \/ e.downstream_task \notin {flow.tasks[i] : i \in DOMAIN flow.tasks}

\* The edge rows: the ids of the two tasks (a task's id is its slug's) and mapped.
EdgeRows(flow) ==
    {[upstream_task_id |-> e.upstream_task, downstream_task_id |-> e.downstream_task,
      mapped |-> e.mapped] : e \in flow.edges}

VARIABLES
    flows,        \* rows of models.Flow
    flow_groups,  \* rows of models.FlowGroup
    flow_runs,    \* rows of models.FlowRun
    next_id,      \* ids the store hands out next: [flow, group, run, uuid]
    now,          \* pendulum.now("UTC")
    pc,           \* pc[p]: the await a caller is suspended at, or "idle"
    loc,          \* loc[p]: the caller's local variables
    returned,     \* what the call that has just returned gave back, and to whom
    budget,       \* calls the behaviour may still start: [create, other, edits],
                  \* and whether it makes them one after the other (serial)
    history       \* what has happened: the versions create_flow assigned, the
                  \* flows whose schedule was active when they were archived,
                  \* the settings calls that returned, in that order, and the
                  \* runs held by the passes that stopped before their update

vars == <<flows, flow_groups, flow_runs, next_id, now, pc, loc, returned, budget, history>>

store == <<flows, flow_groups, flow_runs, next_id>>

IdleLoc ==
    [op |-> "none", flow_id |-> 0, max_runs |-> 0, events |-> <<>>, i |-> 0,
     run_ids |-> <<>>, last_scheduled_run |-> 0, flow_schedule |-> NoSchedule,
     version_group_id |-> "", project_id |-> "", schedule |-> NoSchedule,
     serialized_flow |-> SimpleFlow(NoSchedule), tasks |-> <<>>,
     writes |-> <<>>, settings |-> <<>>, after |-> "none",
     set_schedule_active |-> FALSE, flow_group_id |-> 0, version |-> 0,
     alone |-> FALSE, repeat |-> FALSE, id0 |-> 0, at |-> 0]

NoHistory == [assigned |-> {}, archived_active |-> {}, toggled |-> <<>>, stopped |-> {}]

NoPass == [flow_id |-> 0, max_runs |-> 0, at |-> 0]

\* A returned value: run ids, a boolean, a flow id or a raised error.  by and
\* op name the caller and the call (when it got past its first await); pass
\* names the schedule_flow_runs call it ends, when that call ran alone and
\* got to its batch update; flow is the submission of a create_flow call
\* that raised.
NoFlow ==
    [tasks |-> <<>>, edges |-> {}, parameters |-> <<>>, schedule |-> NoSchedule,
     reference_tasks |-> {}, core_version |-> NoneInt]
NoReturn ==
    [by |-> 0, op |-> "none", tag |-> "none", ids |-> <<>>, ok |-> FALSE, id |-> 0,
     pass |-> NoPass, flow |-> NoFlow, after |-> "none", rejected |-> FALSE]
ReturnIds(ids) == [NoReturn EXCEPT !.tag = "run_ids", !.ids = ids, !.ok = TRUE]
ReturnBool(b) == [NoReturn EXCEPT !.tag = "bool", !.ok = b]
ReturnFlowId(f) == [NoReturn EXCEPT !.tag = "flow_id", !.ok = TRUE, !.id = f]
ReturnFlowGroup(g) == [NoReturn EXCEPT !.tag = "flow_group", !.ok = TRUE, !.id = g]
Raise(what) == [NoReturn EXCEPT !.tag = what]
\* The ValueError an entry point raises on its arguments, before its first
\* store access.
Reject == [Raise("ValueError") EXCEPT !.rejected = TRUE]

Quiet(p) == \A q \in Procs \ {p} : pc[q] = "idle"

\* A caller may start a call in the lowest free slot; where calls are made
\* one after the other, only when no call is in progress.
CanStart(p) ==
    /\ pc[p] = "idle"
    /\ \A q \in Procs : q < p => pc[q] # "idle"
    /\ budget.serial => Quiet(p)

\* A step of caller p: p moves to newpc with locals newloc; every other
\* caller in progress is no longer running alone.
Step(p, newpc, newloc) ==
    /\ pc' = [pc EXCEPT ![p] = newpc]
    /\ loc' = [q \in Procs |->
                 IF q = p THEN (IF newpc = "idle" THEN IdleLoc ELSE newloc)
                 ELSE [loc[q] EXCEPT !.alone = FALSE, !.repeat = FALSE]]
    /\ returned' = NoReturn

Return(p, value) ==
    /\ pc' = [pc EXCEPT ![p] = "idle"]
    /\ loc' = [q \in Procs |->
                 IF q = p THEN IdleLoc ELSE [loc[q] EXCEPT !.alone = FALSE, !.repeat = FALSE]]
    /\ returned' = [value EXCEPT !.by = p,
                                 !.op = IF value.op # "none" THEN value.op ELSE loc[p].op,
                                 !.after = loc[p].after]

Init ==
    /\ flows = {}
    /\ flow_groups = {}
    /\ flow_runs = {}
    /\ next_id = [flow |-> 1, group |-> 1, run |-> 1, uuid |-> 1]
    /\ now = 0
    /\ pc = [p \in Procs |-> "idle"]
    /\ loc = [p \in Procs |-> IdleLoc]
    /\ returned = NoReturn
    /\ budget = [serial |-> FALSE, create |-> MaxFlows, other |-> 0, edits |-> 0]
    /\ history = NoHistory


\* ------------------------------------------------------ store relations
\* Flow ids callers name: flow 1 and a flow that does not exist where one
\* flow is registered, the two flows where two are.
ScheduledFlowIds == {1, 2}
FlowIds == {1, 2}

FlowGroupOf(flow) == CHOOSE g \in flow_groups : g.id = flow.flow_group_id

\* api.runs.create_flow_run: an insert guarded by the uniqueness of
\* (flow_id, idempotency_key); a conflicting insert is "already scheduled"
\* and yields the run that is there.
create_flow_run(flow_id, scheduled_start_time, parameters, idempotency_key) ==
    LET existing == {r \in flow_runs : /\ r.flow_id = flow_id
                                       /\ idempotency_key # NoKey
                                       /\ r.idempotency_key = idempotency_key}
        run == [id |-> next_id.run, flow_id |-> flow_id,
                scheduled_start_time |-> Instant(scheduled_start_time),
                parameters |-> parameters, idempotency_key |-> idempotency_key,
                state |-> "Scheduled", auto_scheduled |-> FALSE]
    IN  IF existing # {}
        THEN [runs |-> flow_runs, id |-> (CHOOSE r \in existing : TRUE).id, inserted |-> FALSE]
        ELSE [runs |-> flow_runs \cup {run}, id |-> next_id.run, inserted |-> TRUE]

\* --------------------------------------------------- schedule_flow_runs
\* The where-clause of the flow query.
SchedulableRows(flow_id) ==
    {x \in flows : /\ x.id = flow_id
                   /\ \/ x.schedule.kind # "null"
                      \/ FlowGroupOf(x).schedule.kind # "null"
                   /\ x.is_schedule_active
                   /\ ~x.archived}

\* flow_runs_aggregate(where auto_scheduled).aggregate.max.scheduled_start_time
AutoScheduledStarts(flow_id) ==
    {r.scheduled_start_time : r \in {x \in flow_runs : x.flow_id = flow_id /\ x.auto_scheduled}}

\* The flow's own schedule first.
EffectiveScheduleOwnFirst(flow) ==
    IF flow.schedule.kind # "null"
    THEN flow.schedule
    ELSE (CHOOSE g \in flow_groups : g.id = flow.flow_group_id).schedule

\* The schedule the pass deserializes: the flow group's if it has one.
EffectiveSchedule(flow) ==
    IF FlowGroupOf(flow).schedule.kind # "null"
    THEN FlowGroupOf(flow).schedule
    ELSE flow.schedule

\* The watermark taken from the clock alone.
WatermarkNow(flow_id) == now

\* last_scheduled_run
Watermark(flow_id) ==
    IF AutoScheduledStarts(flow_id) # {} THEN Max(AutoScheduledStarts(flow_id)) ELSE now

\* Skipping only what is strictly before the watermark.
SkippedBefore(event, last_scheduled_run) == Instant(event.start_time) < last_scheduled_run

\* "if this run was already scheduled, continue"
Skipped(event, last_scheduled_run) == Instant(event.start_time) <= last_scheduled_run

\* Index of the next event at or after position from that the loop does not
\* skip, 0 when the loop is over.
NextEvent(events, from, last_scheduled_run) ==
    LET rest == {j \in from..Len(events) : ~Skipped(events[j], last_scheduled_run)}
    IN  IF rest = {} THEN 0 ELSE CHOOSE j \in rest : \A k \in rest : j <= k

\* What the call that runs the pass returns once the pass has returned.
PassReturn(op, flow_id, run_ids) ==
    CASE op = "schedule_flow_runs" -> ReturnIds(run_ids)
      [] op = "create_flow" -> ReturnFlowId(flow_id)
      [] OTHER -> ReturnBool(TRUE)

\* The flow query and everything up to the first await of the loop.
PassQuery(p, l) ==
    LET rows == SchedulableRows(l.flow_id)
        flow == CHOOSE x \in rows : TRUE
        flow_schedule == EffectiveSchedule(flow)
        last_scheduled_run == Watermark(l.flow_id)
        events == schedule_next(flow_schedule, now, l.max_runs)
        first == NextEvent(events, 1, last_scheduled_run)
    IN  /\ IF rows = {} \/ flow_schedule.kind = "bad"
           THEN Return(p, PassReturn(l.op, l.flow_id, <<>>))
           ELSE /\ Step(p, IF first = 0 THEN "sfr_update" ELSE "sfr_create",
                        [l EXCEPT !.flow_schedule = flow_schedule,
                                  !.last_scheduled_run = last_scheduled_run,
                                  !.events = events, !.i = first, !.run_ids = <<>>,
                                  !.alone = Quiet(p),
                                  !.repeat = /\ Quiet(p)
                                             /\ l.op = "schedule_flow_runs"
                                             /\ returned.pass = [flow_id |-> l.flow_id,
                                                                 max_runs |-> l.max_runs,
                                                                 at |-> now],
                                  !.id0 = next_id.run, !.at = now])
        /\ UNCHANGED <<store, now>>

schedule_flow_runs(p, flow_id, max_runs) ==
    /\ CanStart(p)
    /\ budget.other > 0
    /\ budget' = [budget EXCEPT !.other = @ - 1]
    /\ UNCHANGED history
    /\ IF flow_id = NoneInt
       THEN Return(p, Reject) /\ UNCHANGED <<store, now>>
       ELSE PassQuery(p, [IdleLoc EXCEPT !.op = "schedule_flow_runs", !.flow_id = flow_id,
                                         !.max_runs = IF max_runs = NoneInt
                                                      THEN DefaultMaxRuns ELSE max_runs])

\* schedule_flow_runs(flow_id=flow_id) called by create_flow and set_schedule_active
sfr_query(p) ==
    /\ pc[p] = "sfr_query"
    /\ PassQuery(p, [loc[p] EXCEPT !.max_runs = DefaultMaxRuns])
    /\ UNCHANGED <<budget, history>>

\* The loop marking each run as it creates it.
sfr_create_marked(p) ==
    /\ pc[p] = "sfr_create"
    /\ LET l == loc[p]
           event == l.events[l.i]
           made == create_flow_run(l.flow_id, event.start_time, event.parameter_defaults,
                                   IdempotencyKey(event.start_time))
           following == NextEvent(l.events, l.i + 1, l.last_scheduled_run)
       IN  /\ flow_runs' = {IF r.id = made.id THEN [r EXCEPT !.auto_scheduled = TRUE] ELSE r
                            : r \in made.runs}
           /\ next_id' = IF made.inserted THEN [next_id EXCEPT !.run = @ + 1] ELSE next_id
           /\ Step(p, IF following = 0 THEN "sfr_update" ELSE "sfr_create",
                   [l EXCEPT !.run_ids = Append(@, made.id), !.i = following])
    /\ UNCHANGED <<flows, flow_groups, now, budget, history>>

sfr_create(p) ==
    /\ pc[p] = "sfr_create"
    /\ LET l == loc[p]
           event == l.events[l.i]
           made == create_flow_run(l.flow_id, event.start_time, event.parameter_defaults,
                                   IdempotencyKey(event.start_time))
           following == NextEvent(l.events, l.i + 1, l.last_scheduled_run)
       IN  /\ flow_runs' = made.runs
           /\ next_id' = IF made.inserted THEN [next_id EXCEPT !.run = @ + 1] ELSE next_id
           /\ Step(p, IF following = 0 THEN "sfr_update" ELSE "sfr_create",
                   [l EXCEPT !.run_ids = Append(@, made.id), !.i = following])
    /\ UNCHANGED <<flows, flow_groups, now, budget, history>>

\* The pass returning without its batch update.
sfr_update_unmarked(p) ==
    /\ pc[p] = "sfr_update"
    /\ LET l == loc[p]
       IN  Return(p, [PassReturn(l.op, l.flow_id, l.run_ids) EXCEPT
                         !.pass = IF l.alone /\ l.op = "schedule_flow_runs"
                                  THEN [flow_id |-> l.flow_id, max_runs |-> l.max_runs,
                                        at |-> l.at]
                                  ELSE NoPass])
    /\ UNCHANGED <<flows, flow_groups, flow_runs, next_id, now, budget, history>>

sfr_update(p) ==
    /\ pc[p] = "sfr_update"
    /\ LET l == loc[p]
       IN  /\ flow_runs' = {IF r.id \in Range(l.run_ids)
                            THEN [r EXCEPT !.auto_scheduled = TRUE] ELSE r : r \in flow_runs}
           /\ Return(p, [PassReturn(l.op, l.flow_id, l.run_ids) EXCEPT
                            !.pass = IF l.alone /\ l.op = "schedule_flow_runs"
                                     THEN [flow_id |-> l.flow_id, max_runs |-> l.max_runs,
                                           at |-> l.at]
                                     ELSE NoPass])
    /\ UNCHANGED <<flows, flow_groups, next_id, now, budget, history>>

\* The pass ends at an await of its loop or at its batch update with the
\* exception the awaited call raised: no statement of the pass runs after it.
sfr_stop(p) ==
    /\ pc[p] \in {"sfr_create", "sfr_update"}
    /\ history' = [history EXCEPT !.stopped = @ \cup Range(loc[p].run_ids)]
    /\ Return(p, Raise("Exception"))
    /\ UNCHANGED <<flows, flow_groups, flow_runs, next_id, now, budget>>

\* ------------------------------------------------- set_schedule_(in)active
SetScheduleActive(p, l) ==
    LET rows == {x \in flows : x.id = l.flow_id}
    IN  /\ flows' = {IF x \in rows THEN [x EXCEPT !.is_schedule_active = TRUE] ELSE x : x \in flows}
        /\ IF rows = {}
           THEN Return(p, ReturnBool(l.op = "unarchive_flow"))
           ELSE Step(p, "sfr_query", l)
        /\ UNCHANGED <<flow_groups, flow_runs, next_id, now>>

set_schedule_active(p, flow_id) ==
    /\ CanStart(p)
    /\ budget.other > 0
    /\ budget' = [budget EXCEPT !.other = @ - 1]
    /\ UNCHANGED history
    /\ IF flow_id = NoneInt
       THEN Return(p, Reject) /\ UNCHANGED <<store, now>>
       ELSE SetScheduleActive(p, [IdleLoc EXCEPT !.op = "set_schedule_active",
                                                 !.flow_id = flow_id])

\* set_schedule_active(flow_id) called by unarchive_flow
ssa_update(p) ==
    /\ pc[p] = "ssa_update"
    /\ SetScheduleActive(p, loc[p])
    /\ UNCHANGED <<budget, history>>

set_schedule_inactive(p, flow_id) ==
    /\ CanStart(p)
    /\ budget.other > 0
    /\ budget' = [budget EXCEPT !.other = @ - 1]
    /\ UNCHANGED history
    /\ IF flow_id = NoneInt
       THEN Return(p, Reject) /\ UNCHANGED flows
       ELSE LET rows == {x \in flows : x.id = flow_id}
            IN  /\ flows' = {IF x \in rows THEN [x EXCEPT !.is_schedule_active = FALSE]
                             ELSE x : x \in flows}
                /\ IF rows = {}
                   THEN Return(p, ReturnBool(FALSE))
                   ELSE Step(p, "ssi_delete",
                             [IdleLoc EXCEPT !.op = "set_schedule_inactive",
                                             !.flow_id = flow_id])
    /\ UNCHANGED <<flow_groups, flow_runs, next_id, now>>

ssi_delete(p) ==
    /\ pc[p] = "ssi_delete"
    /\ flow_runs' = {r \in flow_runs : ~(/\ r.flow_id = loc[p].flow_id
                                         /\ r.state = "Scheduled"
                                         /\ r.auto_scheduled)}
    /\ Return(p, ReturnBool(TRUE))
    /\ UNCHANGED <<flows, flow_groups, next_id, now, budget, history>>

\* ------------------------------------------------------------- settings
\* The map holding the key alone.
SetKeyAlone(settings, key, value) == [k \in {key} |-> value]

\* flow.flow_group.settings[key] = value
SetKey(settings, key, value) ==
    [k \in DOMAIN settings \cup {key} |-> IF k = key THEN value ELSE settings[k]]

\* The _update_flow_setting calls an entry point makes, in order.
SettingWrites(op) ==
    CASE op = "enable_heartbeat_for_flow" ->
            <<[key |-> "disable_heartbeat", value |-> FALSE],
              [key |-> "heartbeat_enabled", value |-> TRUE]>>
      [] op = "disable_heartbeat_for_flow" ->
            <<[key |-> "disable_heartbeat", value |-> TRUE],
              [key |-> "heartbeat_enabled", value |-> FALSE]>>
      [] op = "enable_lazarus_for_flow" -> <<[key |-> "lazarus_enabled", value |-> TRUE]>>
      [] op = "disable_lazarus_for_flow" -> <<[key |-> "lazarus_enabled", value |-> FALSE]>>
      [] op = "enable_version_locking_for_flow" ->
            <<[key |-> "version_locking_enabled", value |-> TRUE]>>
      [] op = "disable_version_locking_for_flow" ->
            <<[key |-> "version_locking_enabled", value |-> FALSE]>>

\* _update_flow_setting up to its update: the flow id check, the read of the
\* flow's group settings and the assignment of the key in the map read.
SettingRead(p, l) ==
    LET rows == {x \in flows : x.id = l.flow_id}
        flow == CHOOSE x \in rows : TRUE
        write == l.writes[1]
    IN  /\ IF l.flow_id = NoneInt
           THEN Return(p, Reject)
           ELSE IF rows = {}
           THEN Return(p, Raise("ValueError"))
           ELSE Step(p, "ufs_update",
                     [l EXCEPT !.flow_group_id = flow.flow_group_id,
                               !.settings = SetKey(FlowGroupOf(flow).settings,
                                                   write.key, write.value),
                               !.alone = Quiet(p)])
        /\ UNCHANGED <<store, now>>

\* A caller invokes one of the six toggles, or _update_flow_setting itself.
StartSetting(p, op, flow_id, writes) ==
    /\ CanStart(p)
    /\ budget.other > 0
    /\ budget' = [budget EXCEPT !.other = @ - 1]
    /\ UNCHANGED history
    /\ SettingRead(p, [IdleLoc EXCEPT !.op = op, !.flow_id = flow_id, !.writes = writes,
                                      !.after = IF Quiet(p) THEN returned.op ELSE "none"])

update_flow_setting(p, flow_id, key, value) ==
    StartSetting(p, "_update_flow_setting", flow_id, <<[key |-> key, value |-> value]>>)

enable_heartbeat_for_flow(p, flow_id) ==
    StartSetting(p, "enable_heartbeat_for_flow", flow_id,
                 SettingWrites("enable_heartbeat_for_flow"))

disable_heartbeat_for_flow(p, flow_id) ==
    StartSetting(p, "disable_heartbeat_for_flow", flow_id,
                 SettingWrites("disable_heartbeat_for_flow"))

enable_lazarus_for_flow(p, flow_id) ==
    StartSetting(p, "enable_lazarus_for_flow", flow_id,
                 SettingWrites("enable_lazarus_for_flow"))

disable_lazarus_for_flow(p, flow_id) ==
    StartSetting(p, "disable_lazarus_for_flow", flow_id,
                 SettingWrites("disable_lazarus_for_flow"))

enable_version_locking_for_flow(p, flow_id) ==
    StartSetting(p, "enable_version_locking_for_flow", flow_id,
                 SettingWrites("enable_version_locking_for_flow"))

disable_version_locking_for_flow(p, flow_id) ==
    StartSetting(p, "disable_version_locking_for_flow", flow_id,
                 SettingWrites("disable_version_locking_for_flow"))

\* The read of the second _update_flow_setting call of a heartbeat toggle.
ufs_read(p) ==
    /\ pc[p] = "ufs_read"
    /\ SettingRead(p, loc[p])
    /\ UNCHANGED <<budget, history>>

\* The update writing only the key into the map the store holds.
ufs_update_merge(p) ==
    /\ pc[p] = "ufs_update"
    /\ LET l == loc[p]
           rows == {g \in flow_groups : g.id = l.flow_group_id}
       IN  /\ flow_groups' = {IF g \in rows
                               THEN [g EXCEPT !.settings = SetKey(@, l.writes[1].key,
                                                                  l.writes[1].value)]
                               ELSE g : g \in flow_groups}
           /\ history' = [history EXCEPT !.toggled = Append(@, l.op)]
           /\ Return(p, ReturnBool(TRUE))
    /\ UNCHANGED <<flows, flow_runs, next_id, now, budget>>

\* models.FlowGroup.where(id=flow.flow_group.id).update(set={"settings": ...}),
\* then the return, or the next _update_flow_setting call up to its read.
ufs_update(p) ==
    /\ pc[p] = "ufs_update"
    /\ LET l == loc[p]
           rows == {g \in flow_groups : g.id = l.flow_group_id}
       IN  /\ flow_groups' = {IF g \in rows THEN [g EXCEPT !.settings = l.settings] ELSE g
                               : g \in flow_groups}
           /\ IF rows = {}
              THEN Return(p, Raise("ValueError")) /\ UNCHANGED history
              ELSE IF Len(l.writes) > 1
              THEN Step(p, "ufs_read", [l EXCEPT !.writes = Tail(@)]) /\ UNCHANGED history
              ELSE /\ history' = [history EXCEPT !.toggled = Append(@, l.op)]
                   /\ Return(p, IF l.op = "_update_flow_setting"
                                THEN ReturnFlowGroup(l.flow_group_id)
                                ELSE ReturnBool(TRUE))
    /\ UNCHANGED <<flows, flow_runs, next_id, now, budget>>

\* ------------------------------------------------ archive / unarchive
archive_flow(p, flow_id) ==
    /\ CanStart(p)
    /\ budget.other > 0
    /\ budget' = [budget EXCEPT !.other = @ - 1]
    /\ IF flow_id \in {NoneInt, EmptyId}
       THEN Return(p, Reject) /\ UNCHANGED <<flows, history>>
       ELSE LET rows == {x \in flows : x.id = flow_id}
            IN  /\ flows' = {IF x \in rows THEN [x EXCEPT !.archived = TRUE] ELSE x
                             : x \in flows}
                /\ history' =
                      [history EXCEPT !.archived_active =
                          (@ \ {flow_id}) \cup {x.id : x \in {y \in rows : y.is_schedule_active}}]
                /\ IF rows = {}
                   THEN Return(p, ReturnBool(FALSE))
                   ELSE Step(p, "arc_delete",
                             [IdleLoc EXCEPT !.op = "archive_flow", !.flow_id = flow_id])
    /\ UNCHANGED <<flow_groups, flow_runs, next_id, now>>

\* The delete of archive_flow restricted to auto-scheduled runs.
arc_delete_auto(p) ==
    /\ pc[p] = "arc_delete"
    /\ flow_runs' = {r \in flow_runs : ~(/\ r.flow_id = loc[p].flow_id
                                         /\ r.state = "Scheduled"
                                         /\ r.auto_scheduled)}
    /\ Return(p, ReturnBool(TRUE))
    /\ UNCHANGED <<flows, flow_groups, next_id, now, budget, history>>

arc_delete(p) ==
    /\ pc[p] = "arc_delete"
    /\ flow_runs' = {r \in flow_runs : ~(r.flow_id = loc[p].flow_id /\ r.state = "Scheduled")}
    /\ Return(p, ReturnBool(TRUE))
    /\ UNCHANGED <<flows, flow_groups, next_id, now, budget, history>>

unarchive_flow(p, flow_id) ==
    /\ CanStart(p)
    /\ budget.other > 0
    /\ budget' = [budget EXCEPT !.other = @ - 1]
    /\ UNCHANGED history
    /\ IF flow_id \in {NoneInt, EmptyId}
       THEN Return(p, Reject) /\ UNCHANGED flows
       ELSE LET rows == {x \in flows : x.id = flow_id}
            IN  /\ flows' = {IF x \in rows THEN [x EXCEPT !.archived = FALSE] ELSE x
                             : x \in flows}
                /\ IF rows # {} /\ (CHOOSE x \in rows : TRUE).is_schedule_active
                   THEN Step(p, "ssa_update",
                             [IdleLoc EXCEPT !.op = "unarchive_flow", !.flow_id = flow_id])
                   ELSE Return(p, [ReturnBool(rows # {}) EXCEPT !.op = "unarchive_flow",
                                                                !.id = flow_id])
    /\ UNCHANGED <<flow_groups, flow_runs, next_id, now>>

\* ------------------------------------------- delete_flow, update_flow_project
\* models.Flow.where(id=flow_id).delete()
delete_flow(p, flow_id) ==
    /\ CanStart(p)
    /\ budget.other > 0
    /\ budget' = [budget EXCEPT !.other = @ - 1]
    /\ IF flow_id \in {NoneInt, EmptyId}
       THEN Return(p, Reject) /\ UNCHANGED flows
       ELSE LET rows == {x \in flows : x.id = flow_id}
            IN  /\ flows' = flows \ rows
                /\ Return(p, [ReturnBool(rows # {}) EXCEPT !.op = "delete_flow",
                                                           !.id = flow_id])
    /\ UNCHANGED <<flow_groups, flow_runs, next_id, now, history>>

\* The update matches the flow when its tenant has the project.
update_flow_project(p, flow_id, project_id) ==
    /\ CanStart(p)
    /\ budget.other > 0
    /\ budget' = [budget EXCEPT !.other = @ - 1]
    /\ IF flow_id = NoneInt \/ project_id = NoneProject
       THEN Return(p, Reject) /\ UNCHANGED flows
       ELSE LET rows == {x \in flows : x.id = flow_id /\ project_id \in Projects}
            IN  /\ flows' = {IF x \in rows THEN [x EXCEPT !.project_id = project_id] ELSE x
                             : x \in flows}
                /\ Return(p, IF rows = {}
                             THEN Raise("ValueError")
                             ELSE [ReturnFlowId(flow_id) EXCEPT !.op = "update_flow_project"])
    /\ UNCHANGED <<flow_groups, flow_runs, next_id, now, history>>

\* ----------------------------------------------------------- create_flow
\* The core version check, the project load, then (synchronously) the
\* required parameters, the task flags and the version group id.
create_flow(p, serialized_flow, project_id, version_group_id, set_active) ==
    /\ CanStart(p)
    /\ budget.create > 0
    /\ budget' = [budget EXCEPT !.create = @ - 1]
    /\ UNCHANGED history
    /\ IF \/ BelowCutoff(serialized_flow)
          \/ project_id \notin Projects
          \/ Uncovered(serialized_flow)
       THEN /\ Return(p, [Raise("ValueError") EXCEPT !.flow = serialized_flow])
            /\ UNCHANGED next_id
       ELSE /\ Step(p, "cf_group_find",
                    [IdleLoc EXCEPT !.op = "create_flow", !.project_id = project_id,
                                    !.serialized_flow = serialized_flow,
                                    !.tasks = TaskRows(serialized_flow),
                                    !.schedule = serialized_flow.schedule,
                                    !.set_schedule_active = set_active,
                                    !.version_group_id = IF version_group_id # ""
                                                         THEN version_group_id
                                                         ELSE Uuid(next_id.uuid)])
            /\ next_id' = IF version_group_id # "" THEN next_id
                          ELSE [next_id EXCEPT !.uuid = @ + 1]
    /\ UNCHANGED <<flows, flow_groups, flow_runs, now>>

\* models.FlowGroup.where(tenant_id, name).first()
cf_group_find(p) ==
    /\ pc[p] = "cf_group_find"
    /\ LET found == {g \in flow_groups : /\ g.tenant_id = Tenant
                                         /\ g.name = loc[p].version_group_id}
       IN  IF found = {}
           THEN Step(p, "cf_group_insert", loc[p])
           ELSE Step(p, "cf_version",
                     [loc[p] EXCEPT !.flow_group_id = (CHOOSE g \in found : TRUE).id])
    /\ UNCHANGED <<store, now, budget, history>>

\* models.FlowGroup(...).insert()
cf_group_insert(p) ==
    /\ pc[p] = "cf_group_insert"
    /\ flow_groups' = flow_groups \cup
           {[id |-> next_id.group, tenant_id |-> Tenant, name |-> loc[p].version_group_id,
             schedule |-> NoSchedule, settings |-> DefaultSettings]}
    /\ next_id' = [next_id EXCEPT !.group = @ + 1]
    /\ Step(p, "cf_version", [loc[p] EXCEPT !.flow_group_id = next_id.group])
    /\ UNCHANGED <<flows, flow_runs, now, budget, history>>

\* The maximum taken over the tenant's flows, whatever their version group.
MaxVersionOfTenant(tenant_id, version_group_id) ==
    LET versions == {x.version : x \in {y \in flows : y.tenant_id = tenant_id}}
    IN  IF versions = {} THEN 0 ELSE Max(versions)

\* models.Flow.where(version_where).max({"version"})
MaxVersion(tenant_id, version_group_id) ==
    LET versions == {x.version : x \in {y \in flows : /\ y.tenant_id = tenant_id
                                                      /\ y.version_group_id = version_group_id}}
    IN  IF versions = {} THEN 0 ELSE Max(versions)

\* The maximum version, then (synchronously) the task and edge rows of the
\* insert, whose task_lookup raises KeyError for a slug without a task.
cf_version(p) ==
    /\ pc[p] = "cf_version"
    /\ IF UnknownSlug(loc[p].serialized_flow)
       THEN Return(p, [Raise("KeyError") EXCEPT !.flow = loc[p].serialized_flow])
       ELSE Step(p, "cf_insert",
                 [loc[p] EXCEPT !.version = MaxVersion(Tenant, loc[p].version_group_id)])
    /\ UNCHANGED <<store, now, budget, history>>

\* models.Flow(...).insert(), then the first scheduling pass
cf_insert(p) ==
    /\ pc[p] = "cf_insert"
    /\ LET l == loc[p]
       IN  /\ flows' = flows \cup
                  {[id |-> next_id.flow, tenant_id |-> Tenant, project_id |-> l.project_id,
                    version_group_id |-> l.version_group_id, version |-> l.version + 1,
                    archived |-> FALSE, flow_group_id |-> l.flow_group_id,
                    schedule |-> l.schedule, is_schedule_active |-> l.set_schedule_active,
                    serialized_flow |-> l.serialized_flow, tasks |-> l.tasks,
                    edges |-> EdgeRows(l.serialized_flow)]}
           /\ next_id' = [next_id EXCEPT !.flow = @ + 1]
           /\ history' = [history EXCEPT !.assigned =
                              @ \cup {[tenant_id |-> Tenant,
                                       version_group_id |-> l.version_group_id,
                                       version |-> l.version + 1]}]
           /\ IF l.set_schedule_active
              THEN Step(p, "sfr_query", [l EXCEPT !.flow_id = next_id.flow])
              ELSE Return(p, ReturnFlowId(next_id.flow))
    /\ UNCHANGED <<flow_groups, flow_runs, now, budget>>

\* ------------------------------------------------------ the environment
\* Time passes.
Tick ==
    /\ now < MaxTime
    /\ now' = now + 1
    /\ returned' = NoReturn
    /\ UNCHANGED <<store, pc, loc, budget, history>>

\* Another caller's operation: no call in progress is running alone any more.
Disturb ==
    /\ loc' = [q \in Procs |-> [loc[q] EXCEPT !.alone = FALSE, !.repeat = FALSE]]
    /\ returned' = NoReturn
    /\ UNCHANGED <<pc, now>>

\* api.flow_groups.set_flow_group_schedule: gives a flow group its own schedule.
set_flow_group_schedule(flow_group_id, schedule) ==
    /\ budget.edits > 0
    /\ budget' = [budget EXCEPT !.edits = @ - 1]
    /\ UNCHANGED history
    /\ \E g \in flow_groups :
          /\ g.id = flow_group_id
          /\ flow_groups' = (flow_groups \ {g}) \cup {[g EXCEPT !.schedule = schedule]}
    /\ Disturb
    /\ UNCHANGED <<flows, flow_runs, next_id>>

\* api.runs.create_flow_run called by a user: a run without idempotency key.
manual_flow_run(flow_id) ==
    /\ budget.edits > 0
    /\ budget' = [budget EXCEPT !.edits = @ - 1]
    /\ UNCHANGED history
    /\ \E x \in flows : x.id = flow_id
    /\ flow_runs' = create_flow_run(flow_id, [t |-> now, off |-> 0], "manual", NoKey).runs
    /\ next_id' = [next_id EXCEPT !.run = @ + 1]
    /\ Disturb
    /\ UNCHANGED <<flows, flow_groups>>

\* The executor picks up a run that is due.
start_flow_run ==
    /\ \E r \in flow_runs :
          /\ r.state = "Scheduled"
          /\ r.scheduled_start_time <= now
          /\ flow_runs' = (flow_runs \ {r}) \cup {[r EXCEPT !.state = "Running"]}
    /\ Disturb
    /\ UNCHANGED <<flows, flow_groups, next_id, budget, history>>

\* ------------------------------------------------------------ the system
\* Registration: callers submit flows to a store that starts empty.
Next ==
    \/ \E p \in Procs, project_id \in ProjectIds,
          version_group_id \in SuppliedVersionGroups \cup {""},
          schedule \in FlowSchedules, set_active \in BOOLEAN :
            create_flow(p, SimpleFlow(schedule), project_id, version_group_id, set_active)
    \/ \E p \in Procs : cf_group_find(p)
    \/ \E p \in Procs : cf_group_insert(p)
    \/ \E p \in Procs : cf_version(p)
    \/ \E p \in Procs : cf_insert(p)
    \/ \E p \in Procs : sfr_query(p)
    \/ \E p \in Procs : sfr_create(p)
    \/ \E p \in Procs : sfr_update(p)

Spec == Init /\ [][Next]_vars

\* Registration by callers that submit one after the other.
InitSequential ==
    /\ flows = {}
    /\ flow_groups = {}
    /\ flow_runs = {}
    /\ next_id = [flow |-> 1, group |-> 1, run |-> 1, uuid |-> 1]
    /\ now = 0
    /\ pc = [p \in Procs |-> "idle"]
    /\ loc = [p \in Procs |-> IdleLoc]
    /\ returned = NoReturn
    /\ budget = [serial |-> TRUE, create |-> MaxFlows + 1, other |-> 0, edits |-> 0]
    /\ history = NoHistory

SpecSequential == InitSequential /\ [][Next]_vars

\* Submission: one caller submits a flow to a store that starts empty.  The
\* calls vary the graph of a flow without schedule, or the parameters,
\* schedule and core version of a flow with one task, or the project and
\* the version group.
SubmitCalls ==
    {[serialized_flow |-> flow, project_id |-> "proj", version_group_id |-> "vgA",
      set_schedule_active |-> FALSE] : flow \in GraphSubmissions}
    \cup {[serialized_flow |-> flow, project_id |-> "proj", version_group_id |-> "vgA",
           set_schedule_active |-> set_active]
             : flow \in ScheduleSubmissions, set_active \in BOOLEAN}
    \cup {[serialized_flow |-> SimpleFlow(NoSchedule), project_id |-> project_id,
           version_group_id |-> version_group_id, set_schedule_active |-> FALSE]
             : project_id \in ProjectIds, version_group_id \in SuppliedVersionGroups \cup {""}}

InitSubmit ==
    /\ flows = {}
    /\ flow_groups = {}
    /\ flow_runs = {}
    /\ next_id = [flow |-> 1, group |-> 1, run |-> 1, uuid |-> 1]
    /\ now = 0
    /\ pc = [p \in Procs |-> "idle"]
    /\ loc = [p \in Procs |-> IdleLoc]
    /\ returned = NoReturn
    /\ budget = [serial |-> FALSE, create |-> 1, other |-> 0, edits |-> 0]
    /\ history = NoHistory

NextSubmit ==
    \/ \E p \in Procs :
          /\ CanStart(p) /\ budget.create > 0
          /\ \E call \in SubmitCalls :
                create_flow(p, call.serialized_flow, call.project_id, call.version_group_id,
                            call.set_schedule_active)
    \/ \E p \in Procs : cf_group_find(p)
    \/ \E p \in Procs : cf_group_insert(p)
    \/ \E p \in Procs : cf_version(p)
    \/ \E p \in Procs : cf_insert(p)
    \/ \E p \in Procs : sfr_query(p)
    \/ \E p \in Procs : sfr_create(p)
    \/ \E p \in Procs : sfr_update(p)

SpecSubmit == InitSubmit /\ [][NextSubmit]_vars

\* A flow row as create_flow inserts it into version group "vgA".
Registered(id, schedule, set_active) ==
    [id |-> id, tenant_id |-> Tenant, project_id |-> "proj", version_group_id |-> "vgA",
     version |-> id, archived |-> FALSE, flow_group_id |-> 1, schedule |-> schedule,
     is_schedule_active |-> set_active, serialized_flow |-> SimpleFlow(schedule),
     tasks |-> TaskRows(SimpleFlow(schedule)), edges |-> {}]

\* The history of a store whose flows are rows.
Registry(rows) ==
    [assigned |-> {[tenant_id |-> x.tenant_id, version_group_id |-> x.version_group_id,
                    version |-> x.version] : x \in rows},
     archived_active |-> {x.id : x \in {y \in rows : y.archived /\ y.is_schedule_active}},
     toggled |-> <<>>, stopped |-> {}]

\* The locals of the create_flow call that has just inserted flow id.
Registering(id, schedule) ==
    [IdleLoc EXCEPT !.op = "create_flow", !.project_id = "proj", !.schedule = schedule,
                    !.serialized_flow = SimpleFlow(schedule),
                    !.tasks = TaskRows(SimpleFlow(schedule)),
                    !.set_schedule_active = TRUE, !.version_group_id = "vgA",
                    !.flow_group_id = 1, !.version = id - 1, !.flow_id = id]

\* Scheduling: the store holds one flow registered by
\* create_flow(flow, "proj", "vgA", set_schedule_active).  The call has
\* returned, or (set_schedule_active) has inserted the flow and is about to
\* run its scheduling pass, or it returned and archive_flow archived the flow.
InitSchedule ==
    \E schedule \in FlowSchedules, set_active \in BOOLEAN, archived \in BOOLEAN :
       LET pending == set_active /\ ~archived
       IN  /\ flows = {[Registered(1, schedule, set_active) EXCEPT !.archived = archived]}
           /\ flow_groups = {[id |-> 1, tenant_id |-> Tenant, name |-> "vgA",
                              schedule |-> NoSchedule, settings |-> DefaultSettings]}
           /\ flow_runs = {}
           /\ next_id = [flow |-> 2, group |-> 2, run |-> 1, uuid |-> 1]
           /\ now = 0
           /\ pc = [p \in Procs |-> IF p = 1 /\ pending THEN "sfr_query" ELSE "idle"]
           /\ loc = [p \in Procs |-> IF p = 1 /\ pending
                                     THEN Registering(1, schedule) ELSE IdleLoc]
           /\ returned = NoReturn
           /\ budget = [serial |-> FALSE, create |-> 0, other |-> MaxPasses, edits |-> MaxEdits]
           /\ history = Registry(flows)

NextSchedule ==
    \/ \E p \in Procs, flow_id \in ScheduledFlowIds, max_runs \in {NoneInt} :
            schedule_flow_runs(p, flow_id, max_runs)
    \/ \E p \in Procs : sfr_query(p)
    \/ \E p \in Procs : sfr_create(p)
    \/ \E p \in Procs : sfr_update(p)
    \/ \E p \in Procs, flow_id \in ScheduledFlowIds : set_schedule_active(p, flow_id)
    \/ Tick
    \/ \E g \in ScheduledFlowIds, schedule \in GroupSchedules :
            set_flow_group_schedule(g, schedule)

SpecSchedule == InitSchedule /\ [][NextSchedule]_vars

\* Lifecycle: the store holds one flow with a schedule, whose create_flow
\* call has returned or is about to run its scheduling pass; callers
\* schedule, archive, unarchive, activate and deactivate it concurrently.
InitLifecycle ==
    \E set_active \in BOOLEAN :
       /\ flows = {Registered(1, UtcSchedule, set_active)}
       /\ flow_groups = {[id |-> 1, tenant_id |-> Tenant, name |-> "vgA",
                          schedule |-> NoSchedule, settings |-> DefaultSettings]}
       /\ flow_runs = {}
       /\ next_id = [flow |-> 2, group |-> 2, run |-> 1, uuid |-> 1]
       /\ now = 0
       /\ pc = [p \in Procs |-> IF p = 1 /\ set_active THEN "sfr_query" ELSE "idle"]
       /\ loc = [p \in Procs |-> IF p = 1 /\ set_active
                                 THEN Registering(1, UtcSchedule) ELSE IdleLoc]
       /\ returned = NoReturn
       /\ budget = [serial |-> FALSE, create |-> 0, other |-> MaxCalls, edits |-> 0]
       /\ history = Registry(flows)

NextLifecycle ==
    \/ \E p \in Procs, flow_id \in ScheduledFlowIds, max_runs \in {NoneInt, 1} :
            schedule_flow_runs(p, flow_id, max_runs)
    \/ \E p \in Procs : sfr_query(p)
    \/ \E p \in Procs : sfr_create(p)
    \/ \E p \in Procs : sfr_update(p)
    \/ \E p \in Procs, flow_id \in ScheduledFlowIds : set_schedule_active(p, flow_id)
    \/ \E p \in Procs : ssa_update(p)
    \/ \E p \in Procs, flow_id \in ScheduledFlowIds : set_schedule_inactive(p, flow_id)
    \/ \E p \in Procs : ssi_delete(p)
    \/ \E p \in Procs, flow_id \in ScheduledFlowIds : archive_flow(p, flow_id)
    \/ \E p \in Procs : arc_delete(p)
    \/ \E p \in Procs, flow_id \in ScheduledFlowIds : unarchive_flow(p, flow_id)
    \/ Tick

SpecLifecycle == InitLifecycle /\ [][NextLifecycle]_vars

\* Cancellation: the store holds two versions of "vgA", flow 1 without a
\* schedule, and flow 2 whose create_flow call has returned or is about to run its scheduling
\* pass; a user has created a run of flow 1.  Users create further runs and
\* the executor starts runs that are due, while callers archive and
\* deactivate the flows.
InitCancel ==
    \E set_active \in BOOLEAN :
       /\ flows = {Registered(1, NoSchedule, FALSE), Registered(2, UtcSchedule, set_active)}
       /\ flow_groups = {[id |-> 1, tenant_id |-> Tenant, name |-> "vgA",
                          schedule |-> NoSchedule, settings |-> DefaultSettings]}
       /\ flow_runs = {[id |-> 1, flow_id |-> 1, scheduled_start_time |-> 0,
                        parameters |-> "manual", idempotency_key |-> NoKey,
                        state |-> "Scheduled", auto_scheduled |-> FALSE]}
       /\ next_id = [flow |-> 3, group |-> 2, run |-> 2, uuid |-> 1]
       /\ now = 0
       /\ pc = [p \in Procs |-> IF p = 1 /\ set_active THEN "sfr_query" ELSE "idle"]
       /\ loc = [p \in Procs |-> IF p = 1 /\ set_active
                                 THEN Registering(2, UtcSchedule) ELSE IdleLoc]
       /\ returned = NoReturn
       /\ budget = [serial |-> FALSE, create |-> 0, other |-> MaxCancels, edits |-> MaxEdits]
       /\ history = Registry(flows)

NextCancel ==
    \/ \E p \in Procs : sfr_query(p)
    \/ \E p \in Procs : sfr_create(p)
    \/ \E p \in Procs : sfr_update(p)
    \/ \E p \in Procs, flow_id \in FlowIds : set_schedule_inactive(p, flow_id)
    \/ \E p \in Procs : ssi_delete(p)
    \/ \E p \in Procs, flow_id \in FlowIds : archive_flow(p, flow_id)
    \/ \E p \in Procs : arc_delete(p)
    \/ Tick
    \/ manual_flow_run(2)
    \/ start_flow_run

SpecCancel == InitCancel /\ [][NextCancel]_vars

\* Settings: the store holds one flow, whose create_flow call has returned;
\* operators toggle the settings of its flow group concurrently.
SettingKeys ==
    {"heartbeat_enabled", "lazarus_enabled", "version_locking_enabled", "disable_heartbeat"}

InitSettings ==
    /\ flows = {Registered(1, NoSchedule, FALSE)}
    /\ flow_groups = {[id |-> 1, tenant_id |-> Tenant, name |-> "vgA",
                       schedule |-> NoSchedule, settings |-> DefaultSettings]}
    /\ flow_runs = {}
    /\ next_id = [flow |-> 2, group |-> 2, run |-> 1, uuid |-> 1]
    /\ now = 0
    /\ pc = [p \in Procs |-> "idle"]
    /\ loc = [p \in Procs |-> IdleLoc]
    /\ returned = NoReturn
    /\ budget = [serial |-> FALSE, create |-> 0, other |-> MaxToggles, edits |-> 0]
    /\ history = Registry(flows)

NextSettings ==
    \/ \E p \in Procs, flow_id \in ScheduledFlowIds, key \in SettingKeys, value \in BOOLEAN :
            update_flow_setting(p, flow_id, key, value)
    \/ \E p \in Procs, flow_id \in ScheduledFlowIds : enable_heartbeat_for_flow(p, flow_id)
    \/ \E p \in Procs, flow_id \in ScheduledFlowIds : disable_heartbeat_for_flow(p, flow_id)
    \/ \E p \in Procs, flow_id \in ScheduledFlowIds : enable_lazarus_for_flow(p, flow_id)
    \/ \E p \in Procs, flow_id \in ScheduledFlowIds : disable_lazarus_for_flow(p, flow_id)
    \/ \E p \in Procs, flow_id \in ScheduledFlowIds :
            enable_version_locking_for_flow(p, flow_id)
    \/ \E p \in Procs, flow_id \in ScheduledFlowIds :
            disable_version_locking_for_flow(p, flow_id)
    \/ \E p \in Procs : ufs_read(p)
    \/ \E p \in Procs : ufs_update(p)

SpecSettings == InitSettings /\ [][NextSettings]_vars

\* ===================================================== properties
SameVersionGroup(x, y) ==
    x.tenant_id = y.tenant_id /\ x.version_group_id = y.version_group_id

\* C1: for any interleaving of create_flow calls with the same
\* version_group_id in one tenant, no two Flow rows of that
\* (tenant_id, version_group_id) carry the same version number.
C1_UniqueVersions ==
    \A x \in flows : \A y \in flows :
        (x.id # y.id /\ SameVersionGroup(x, y)) => x.version # y.version

\* C9: create_flow calls made one after the other give the flows of one
\* (tenant_id, version_group_id) the versions 1, 2, ... in the order of
\* submission (v, then v + 1; 1 in a group without flows), and all of them
\* reference one and the same FlowGroup.
C9_SequentialVersions ==
    \A x \in flows :
        LET earlier == {y \in flows : SameVersionGroup(x, y) /\ y.id < x.id}
        IN  /\ x.version = Cardinality(earlier) + 1
            /\ \A y \in earlier : y.flow_group_id = x.flow_group_id
            /\ \E g \in flow_groups : /\ g.id = x.flow_group_id
                                      /\ g.tenant_id = x.tenant_id
                                      /\ g.name = x.version_group_id

\* Two submissions to "vgA" and one to a fresh group have all returned.
C9_Witness ==
    /\ \A p \in Procs : pc[p] = "idle"
    /\ \E x \in flows : \E y \in flows : \E z \in flows :
          /\ x.version_group_id = "vgA" /\ x.version = 1
          /\ y.version_group_id = "vgA" /\ y.version = 2
          /\ x.flow_group_id = y.flow_group_id
          /\ z.version_group_id # "vgA" /\ z.version = 1

\* C10: after any sequence or interleaving of create_flow calls the store
\* holds at most one FlowGroup per (tenant_id, version_group_id).
C10_OneFlowGroup ==
    \A g \in flow_groups : \A h \in flow_groups :
        (g.tenant_id = h.tenant_id /\ g.name = h.name) => g.id = h.id

\* ------------------------------------------------- the materializer
\* Caller p takes a step of the call it is in.
Acts(p) == pc'[p] # pc[p] \/ loc'[p].run_ids # loc[p].run_ids

\* Caller p's pass gets past its flow query in this step.
PassesGate(p) ==
    /\ pc[p] \in {"idle", "sfr_query"}
    /\ pc'[p] \in {"sfr_create", "sfr_update"}

\* Caller p's pass returns in this step from its batch update.
PassReturns(p) == pc[p] = "sfr_update" /\ pc'[p] = "idle"

\* The idempotency key of an occurrence: "auto-scheduled:" and its UTC start.
KeyOf(event) ==
    [prefix |-> "auto-scheduled:",
     time |-> [t |-> event.start_time.t - event.start_time.off, off |-> 0]]

\* The occurrence's start as the store keeps it.
StartOf(event) == event.start_time.t - event.start_time.off

\* C2: no two FlowRuns of one flow share an idempotency_key, also when two
\* passes on the flow overlap; a pass that tries to create a run whose
\* (flow_id, idempotency_key) already exists adds no second run and does not
\* fail, it goes on with its loop.
C2_IdempotentCreation ==
    [][/\ \A r \in flow_runs' : \A q \in flow_runs' :
             (r.id # q.id /\ r.flow_id = q.flow_id /\ r.idempotency_key # NoKey)
                => r.idempotency_key # q.idempotency_key
       /\ \A p \in Procs :
             (/\ pc[p] = "sfr_create"
              /\ Acts(p)
              /\ \E r \in flow_runs : /\ r.flow_id = loc[p].flow_id
                                      /\ r.idempotency_key = KeyOf(loc[p].events[loc[p].i]))
                => /\ flow_runs' = flow_runs
                   /\ pc'[p] \in {"sfr_create", "sfr_update"}
                   /\ Len(loc'[p].run_ids) = Len(loc[p].run_ids) + 1]_vars

\* Two overlapping passes on one flow hold the id of the same run.
C2_Witness ==
    \E p \in Procs : \E q \in Procs :
        /\ p # q
        /\ loc[p].flow_id = loc[q].flow_id
        /\ pc[p] \in {"sfr_create", "sfr_update"}
        /\ pc[q] \in {"sfr_create", "sfr_update"}
        /\ Range(loc[p].run_ids) \cap Range(loc[q].run_ids) # {}

\* C3: once concurrent passes, archive_flow, unarchive_flow,
\* set_schedule_active and set_schedule_inactive calls on a flow have all
\* completed, a further schedule_flow_runs call that runs alone and finds the
\* flow schedulable leaves a FlowRun of the flow for every occurrence the
\* evaluator returned to it that starts after the call's invocation time.
C3_NoDroppedRun ==
    [][\A p \in Procs :
          (PassReturns(p) /\ loc[p].alone /\ loc[p].op = "schedule_flow_runs")
             => \A j \in DOMAIN loc[p].events :
                   StartOf(loc[p].events[j]) > loc[p].at
                      => \E r \in flow_runs' :
                            /\ r.flow_id = loc[p].flow_id
                            /\ r.scheduled_start_time = StartOf(loc[p].events[j])]_vars

\* C4: a schedule_flow_runs call that follows, with the same flow and
\* max_runs, at the same time and with nothing in between, a
\* schedule_flow_runs call that ran alone on a schedulable flow, returns an
\* empty list and leaves the FlowRuns as they are.
C4_Idempotent ==
    [][\A p \in Procs :
          (loc[p].repeat /\ Acts(p))
             => /\ flow_runs' = flow_runs
                /\ pc'[p] \in {"sfr_update", "idle"}
                /\ pc'[p] = "idle" => (returned'.tag = "run_ids" /\ returned'.ids = <<>>)]_vars

\* The second of two such calls is about to return, the first having
\* scheduled runs.
C4_Witness ==
    \E p \in Procs :
        /\ loc[p].repeat
        /\ pc[p] = "sfr_update"
        /\ \E r \in flow_runs : /\ r.flow_id = loc[p].flow_id
                                /\ r.auto_scheduled
                                /\ r.scheduled_start_time > loc[p].at

\* C5: a pass that ran alone on a schedulable flow has created exactly one
\* FlowRun for each occurrence that starts after the watermark, with the
\* occurrence's start, parameter defaults and "auto-scheduled:" + UTC start
\* as idempotency key; when it returns every one of them is auto_scheduled
\* and schedule_flow_runs returns exactly their ids.
C5_PassCreatesRuns ==
    [][\A p \in Procs :
          (PassReturns(p) /\ loc[p].alone)
             => LET l == loc[p]
                    due == {j \in DOMAIN l.events :
                              StartOf(l.events[j]) > l.last_scheduled_run}
                    made == {r \in flow_runs' : r.id >= l.id0}
                IN  /\ Cardinality(made) = Cardinality(due)
                    /\ \A j \in due : \E r \in made :
                          /\ r.flow_id = l.flow_id
                          /\ r.scheduled_start_time = StartOf(l.events[j])
                          /\ r.parameters = l.events[j].parameter_defaults
                          /\ r.idempotency_key = KeyOf(l.events[j])
                          /\ r.state = "Scheduled"
                          /\ r.auto_scheduled
                    /\ l.op = "schedule_flow_runs"
                          => /\ returned'.tag = "run_ids"
                             /\ Range(returned'.ids) = {r.id : r \in made}
                             /\ Len(returned'.ids) = Cardinality(made)]_vars

\* A schedule_flow_runs call that ran alone has returned the id of the run it
\* created from the flow group's schedule, whose events are not in UTC.
C5_Witness ==
    /\ returned.op = "schedule_flow_runs"
    /\ returned.pass # NoPass
    /\ Len(returned.ids) = 1
    /\ \E r \in flow_runs :
          /\ r.id = returned.ids[1]
          /\ r.auto_scheduled
          /\ r.parameters = "b"
          /\ r.idempotency_key.time = [t |-> r.scheduled_start_time, off |-> 0]

\* The schedule the claim names: the FlowGroup's when present, else the Flow's.
ClaimedSchedule(flow) ==
    LET group == CHOOSE g \in flow_groups : g.id = flow.flow_group_id
    IN  IF group.schedule # NoSchedule THEN group.schedule ELSE flow.schedule

ClaimedSchedulable(flow_id) ==
    \E x \in flows : /\ x.id = flow_id
                     /\ ~x.archived
                     /\ x.is_schedule_active
                     /\ ClaimedSchedule(x) # NoSchedule

\* C6: schedule_flow_runs gets past its gate only for a flow that exists,
\* is not archived, has is_schedule_active and an effective schedule, and
\* otherwise creates no FlowRun and returns an empty list; the occurrences
\* it then materializes are those of the FlowGroup's schedule when there is
\* one and of the Flow's own schedule otherwise.
C6_Gate ==
    [][\A p \in Procs :
          /\ PassesGate(p)
                => /\ ClaimedSchedulable(loc'[p].flow_id)
                   /\ \E x \in flows :
                         /\ x.id = loc'[p].flow_id
                         /\ loc'[p].events
                               = schedule_next(ClaimedSchedule(x), now, loc'[p].max_runs)
          /\ (pc[p] \in {"idle", "sfr_query"} /\ Acts(p) /\ ~PassesGate(p))
                => flow_runs' = flow_runs
          /\ (pc[p] = "idle" /\ returned'.by = p /\ returned'.tag = "run_ids")
                => returned'.ids = <<>>
          /\ (pc[p] = "sfr_create" /\ Acts(p))
                => \A r \in flow_runs' \ flow_runs :
                      r.parameters = loc[p].events[loc[p].i].parameter_defaults]_vars

\* A pass materializes the flow group's schedule for a flow that has a
\* schedule of its own.
C6_Witness ==
    \E p \in Procs : \E x \in flows :
        /\ pc[p] = "sfr_update"
        /\ x.id = loc[p].flow_id
        /\ x.schedule = UtcSchedule
        /\ loc[p].flow_schedule = ZonedSchedule
        /\ \E r \in flow_runs : r.id \in Range(loc[p].run_ids) /\ r.parameters = "b"

\* The watermark the claim names.
ClaimedWatermark(flow_id) ==
    LET starts == {r.scheduled_start_time :
                     r \in {x \in flow_runs : x.flow_id = flow_id /\ x.auto_scheduled}}
    IN  IF starts = {} THEN now ELSE Max(starts)

\* C7: the watermark of a pass is the maximum scheduled_start_time of the
\* flow's auto_scheduled runs, or the invocation time when there are none,
\* and every FlowRun the pass creates starts strictly after it; a flow
\* without auto_scheduled runs gets no run at or before the invocation time.
C7_AfterWatermark ==
    [][\A p \in Procs :
          /\ PassesGate(p)
                => /\ loc'[p].last_scheduled_run = ClaimedWatermark(loc'[p].flow_id)
                   /\ loc'[p].at = now
          /\ (pc[p] = "sfr_create" /\ Acts(p))
                => \A r \in flow_runs' \ flow_runs :
                      /\ r.flow_id = loc[p].flow_id
                      /\ r.scheduled_start_time > loc[p].last_scheduled_run]_vars

\* A pass whose evaluator returned an occurrence at its invocation time has
\* skipped it and created a run for a later one.
C7_Witness ==
    \E p \in Procs :
        /\ pc[p] = "sfr_update"
        /\ loc[p].last_scheduled_run = loc[p].at
        /\ \E j \in DOMAIN loc[p].events : StartOf(loc[p].events[j]) = loc[p].at
        /\ \E r \in flow_runs : /\ r.id \in Range(loc[p].run_ids)
                                /\ r.scheduled_start_time > loc[p].at

\* C8: the delete of archive_flow removes exactly the flow's runs in state
\* Scheduled, whatever their auto_scheduled flag, and the delete of
\* set_schedule_inactive exactly the flow's Scheduled runs with
\* auto_scheduled = true; runs in another state, runs of other flows and (for
\* set_schedule_inactive) manually created Scheduled runs stay as they are,
\* and the update before the delete touches no run.
C8_CancelFrame ==
    [][\A p \in Procs :
          /\ (pc[p] = "arc_delete" /\ Acts(p))
                => /\ flow_runs' \subseteq flow_runs
                   /\ \A r \in flow_runs :
                         r \notin flow_runs'
                            <=> (r.flow_id = loc[p].flow_id /\ r.state = "Scheduled")
          /\ (pc[p] = "ssi_delete" /\ Acts(p))
                => /\ flow_runs' \subseteq flow_runs
                   /\ \A r \in flow_runs :
                         r \notin flow_runs'
                            <=> (/\ r.flow_id = loc[p].flow_id
                                 /\ r.state = "Scheduled"
                                 /\ r.auto_scheduled)
          /\ (pc[p] = "idle" /\ pc'[p] \in {"arc_delete", "ssi_delete"})
                => flow_runs' = flow_runs]_vars

\* set_schedule_inactive has returned for flow 2: a manually created
\* Scheduled run and a started run of flow 2 are intact, as is a run of flow 1.
C8_Witness ==
    /\ returned.op = "set_schedule_inactive"
    /\ \E r \in flow_runs :
          r.flow_id = 2 /\ r.state = "Scheduled" /\ ~r.auto_scheduled
    /\ \E r \in flow_runs : r.flow_id = 2 /\ r.state = "Running" /\ r.auto_scheduled
    /\ \E r \in flow_runs : r.flow_id = 1
    /\ ~\E r \in flow_runs : r.flow_id = 2 /\ r.state = "Scheduled" /\ r.auto_scheduled


\* ------------------------------------------------------------ submission
\* A create_flow call has raised.
Failed == returned.tag \in {"ValueError", "KeyError"}

\* C11: whenever a create_flow call fails, the store holds no FlowGroup and
\* no Flow (with its Task and Edge rows) that it did not hold before the
\* call; the call is made on an empty store.
C11_AllOrNothing == Failed => (flow_groups = {} /\ flows = {})

\* The submission has a schedule and a required parameter that is not a key
\* of the parameter_defaults of every clock of the schedule.
ClaimedUncovered(flow) ==
    /\ flow.schedule # NoSchedule
    /\ \E i \in DOMAIN flow.parameters :
          /\ flow.parameters[i].required
          /\ \E c \in DOMAIN flow.schedule.clocks :
                flow.parameters[i].name \notin flow.schedule.clocks[c]

\* C12: a create_flow call on a submission with a schedule and a required
\* parameter that some clock's parameter_defaults do not cover never gets to
\* a storage write: it is not in progress after its first step and has
\* left no Flow, and a call that ends in its first step has raised
\* ValueError and added no FlowGroup, Flow or FlowRun.
C12_RequiredParameters ==
    [][/\ \A p \in Procs :
             pc'[p] # "idle" => ~ClaimedUncovered(loc'[p].serialized_flow)
       /\ \A x \in flows' : ~ClaimedUncovered(x.serialized_flow)
       /\ \A p \in Procs :
             (pc[p] = "idle" /\ pc'[p] = "idle" /\ returned'.by = p)
                => /\ returned'.tag = "ValueError"
                   /\ flow_groups' = flow_groups
                   /\ flows' = flows
                   /\ flow_runs' = flow_runs]_vars

\* A submission with required parameter "x" and a schedule of which one
\* clock covers "x" and another does not has been rejected; the store is empty.
C12_Witness ==
    /\ returned.tag = "ValueError"
    /\ returned.flow.schedule = MixedSchedule
    /\ \E i \in DOMAIN returned.flow.parameters : returned.flow.parameters[i].required
    /\ flow_groups = {} /\ flows = {} /\ flow_runs = {}

\* C13: the store holds no Flow of a submission whose reference_tasks names
\* a slug that is not the slug of one of its tasks.
C13_ReferenceSlugs ==
    \A x \in flows :
        x.serialized_flow.reference_tasks
           \subseteq {x.serialized_flow.tasks[i] : i \in DOMAIN x.serialized_flow.tasks}

\* C14: the flags of every persisted task equal their definitions over the
\* submission's edges and declared reference tasks: root iff no edge has the
\* slug as downstream_task, terminal iff none has it as upstream_task,
\* mapped iff a mapped edge has it as downstream_task, reference iff
\* declared or, when nothing is declared, terminal; root tasks and tasks
\* with an incoming edge partition the tasks, as do terminal tasks and tasks
\* with an outgoing edge, and without edges every task is root and terminal.
C14_TaskFlags ==
    \A x \in flows :
        LET flow == x.serialized_flow
            incoming(slug) == {e \in flow.edges : e.downstream_task = slug}
            outgoing(slug) == {e \in flow.edges : e.upstream_task = slug}
            N == Len(flow.tasks)
        IN  /\ Len(x.tasks) = N
            /\ \A i \in 1..N :
                  LET t == x.tasks[i]
                  IN  /\ t.slug = flow.tasks[i]
                      /\ t.is_root_task <=> incoming(t.slug) = {}
                      /\ t.is_terminal_task <=> outgoing(t.slug) = {}
                      /\ t.mapped <=> \E e \in incoming(t.slug) : e.mapped
                      /\ t.is_reference_task
                            <=> IF flow.reference_tasks # {}
                                THEN t.slug \in flow.reference_tasks
                                ELSE outgoing(t.slug) = {}
            /\ Cardinality({i \in 1..N : x.tasks[i].is_root_task})
                  + Cardinality({i \in 1..N : incoming(flow.tasks[i]) # {}}) = N
            /\ Cardinality({i \in 1..N : x.tasks[i].is_terminal_task})
                  + Cardinality({i \in 1..N : outgoing(flow.tasks[i]) # {}}) = N
            /\ flow.edges = {}
                  => \A i \in 1..N : x.tasks[i].is_root_task /\ x.tasks[i].is_terminal_task

\* A persisted flow with a mapped edge from a declared, non-terminal
\* reference task to a terminal task that is not a reference task.
C14_Witness ==
    \E x \in flows : \E i \in DOMAIN x.tasks : \E j \in DOMAIN x.tasks :
        /\ x.tasks[i].is_reference_task /\ ~x.tasks[i].is_terminal_task
        /\ x.tasks[i].is_root_task
        /\ x.tasks[j].is_terminal_task /\ ~x.tasks[j].is_reference_task
        /\ x.tasks[j].mapped /\ ~x.tasks[j].is_root_task

\* -------------------------------------------------------------- settings
\* The settings of flow group id in the next state.
SettingsAfter(id) == (CHOOSE g \in flow_groups' : g.id = id).settings

\* C15: the update of an update_setting call that runs without a concurrent
\* settings call sets settings[key] to value and leaves every other key of
\* the flow group's settings map as it was; the updates of
\* enable_lazarus_for_flow and disable_lazarus_for_flow leave
\* heartbeat_enabled and version_locking_enabled as they were.
C15_SettingFrame ==
    [][\A p \in Procs :
          (pc[p] = "ufs_update" /\ Acts(p) /\ loc[p].alone)
             => \A g \in flow_groups :
                   IF g.id = loc[p].flow_group_id
                   THEN LET write == loc[p].writes[1]
                            after == SettingsAfter(g.id)
                        IN  /\ DOMAIN after = DOMAIN g.settings \cup {write.key}
                            /\ after[write.key] = write.value
                            /\ \A k \in DOMAIN g.settings \ {write.key} :
                                  after[k] = g.settings[k]
                            /\ loc[p].op \in {"enable_lazarus_for_flow",
                                               "disable_lazarus_for_flow"}
                                  => /\ after.heartbeat_enabled = g.settings.heartbeat_enabled
                                     /\ after.version_locking_enabled
                                           = g.settings.version_locking_enabled
                   ELSE g \in flow_groups']_vars

\* enable_lazarus_for_flow, then disable_lazarus_for_flow, have returned:
\* lazarus is disabled and the other settings are the defaults.
C15_Witness ==
    /\ returned.op = "disable_lazarus_for_flow"
    /\ returned.after = "enable_lazarus_for_flow"
    /\ returned.ok
    /\ history.toggled = <<"enable_lazarus_for_flow", "disable_lazarus_for_flow">>
    /\ \A g \in flow_groups :
          g.settings = [DefaultSettings EXCEPT !.lazarus_enabled = FALSE]

\* C20: every update of an update_setting call replaces the flow group's
\* whole settings map by the map the call read with its own key set, and the
\* call returns successfully; so of two calls on different keys that both
\* read before either writes, the later update undoes the earlier one.
C20_LostUpdate ==
    [][\A p \in Procs :
          (pc[p] = "ufs_update" /\ Acts(p))
             => /\ SettingsAfter(loc[p].flow_group_id) = loc[p].settings
                /\ pc'[p] = "idle" => returned'.ok]_vars

\* disable_lazarus_for_flow and enable_version_locking_for_flow, the only
\* calls made, have both returned successfully, and lazarus is still enabled.
C20_Witness ==
    /\ \A p \in Procs : pc[p] = "idle"
    /\ budget.other = MaxToggles - 2
    /\ history.toggled = <<"disable_lazarus_for_flow", "enable_version_locking_for_flow">>
    /\ \A g \in flow_groups :
          g.settings.lazarus_enabled /\ g.settings.version_locking_enabled

\* ----------------------------------------------------- argument checks
\* Every entry point is called with a missing, an empty or a valid flow id,
\* one call after the other, on a store holding flow 1.
GuardIds == {NoneInt, EmptyId, 1}
GuardProjects == {NoneProject, "", "proj"}

InitGuard ==
    /\ flows = {Registered(1, UtcSchedule, TRUE)}
    /\ flow_groups = {[id |-> 1, tenant_id |-> Tenant, name |-> "vgA",
                       schedule |-> NoSchedule, settings |-> DefaultSettings]}
    /\ flow_runs = {}
    /\ next_id = [flow |-> 2, group |-> 2, run |-> 1, uuid |-> 1]
    /\ now = 0
    /\ pc = [p \in Procs |-> "idle"]
    /\ loc = [p \in Procs |-> IdleLoc]
    /\ returned = NoReturn
    /\ budget = [serial |-> TRUE, create |-> 0, other |-> MaxCalls, edits |-> 0]
    /\ history = Registry(flows)

NextGuard ==
    \/ \E p \in Procs, flow_id \in GuardIds : delete_flow(p, flow_id)
    \/ \E p \in Procs, flow_id \in GuardIds : archive_flow(p, flow_id)
    \/ \E p \in Procs, flow_id \in GuardIds : unarchive_flow(p, flow_id)
    \/ \E p \in Procs, flow_id \in GuardIds, project_id \in GuardProjects :
            update_flow_project(p, flow_id, project_id)
    \/ \E p \in Procs, flow_id \in GuardIds : set_schedule_active(p, flow_id)
    \/ \E p \in Procs, flow_id \in GuardIds : set_schedule_inactive(p, flow_id)
    \/ \E p \in Procs, flow_id \in GuardIds : schedule_flow_runs(p, flow_id, NoneInt)
    \/ \E p \in Procs, flow_id \in GuardIds, key \in SettingKeys, value \in BOOLEAN :
            update_flow_setting(p, flow_id, key, value)
    \/ \E p \in Procs, flow_id \in GuardIds : enable_heartbeat_for_flow(p, flow_id)
    \/ \E p \in Procs, flow_id \in GuardIds : disable_lazarus_for_flow(p, flow_id)
    \/ \E p \in Procs, flow_id \in GuardIds : enable_version_locking_for_flow(p, flow_id)
    \/ \E p \in Procs : arc_delete(p)
    \/ \E p \in Procs : ssa_update(p)
    \/ \E p \in Procs : ssi_delete(p)
    \/ \E p \in Procs : sfr_query(p)
    \/ \E p \in Procs : sfr_create(p)
    \/ \E p \in Procs : sfr_update(p)
    \/ \E p \in Procs : ufs_read(p)
    \/ \E p \in Procs : ufs_update(p)

SpecGuard == InitGuard /\ [][NextGuard]_vars

\* Caller p calls a mutation entry point with flow id flow_id.
Mutates(p, flow_id) ==
    \/ delete_flow(p, flow_id)
    \/ archive_flow(p, flow_id)
    \/ unarchive_flow(p, flow_id)
    \/ \E project_id \in GuardProjects : update_flow_project(p, flow_id, project_id)
    \/ set_schedule_active(p, flow_id)
    \/ set_schedule_inactive(p, flow_id)
    \/ schedule_flow_runs(p, flow_id, NoneInt)
    \/ \E key \in SettingKeys, value \in BOOLEAN : update_flow_setting(p, flow_id, key, value)
    \/ enable_heartbeat_for_flow(p, flow_id)
    \/ disable_lazarus_for_flow(p, flow_id)
    \/ enable_version_locking_for_flow(p, flow_id)

\* C17: every mutation entry point called with a None or empty flow_id, and
\* update_flow_project called with a None or empty project_id, raises its
\* error before any store read, update or delete.
C17_RejectsMissingIds ==
    [][\A p \in Procs :
          /\ \A flow_id \in {NoneInt, EmptyId} :
                Mutates(p, flow_id) => returned'.rejected /\ UNCHANGED store
          /\ \A flow_id \in GuardIds, project_id \in {NoneProject, ""} :
                update_flow_project(p, flow_id, project_id)
                   => returned'.rejected /\ UNCHANGED store]_vars

\* ------------------------------------------------------ version history
\* Flows are registered in version groups and deleted, one call after the
\* other, starting from an empty store.
InitHistory ==
    /\ flows = {}
    /\ flow_groups = {}
    /\ flow_runs = {}
    /\ next_id = [flow |-> 1, group |-> 1, run |-> 1, uuid |-> 1]
    /\ now = 0
    /\ pc = [p \in Procs |-> "idle"]
    /\ loc = [p \in Procs |-> IdleLoc]
    /\ returned = NoReturn
    /\ budget = [serial |-> TRUE, create |-> MaxFlows + 1, other |-> MaxCalls, edits |-> 0]
    /\ history = NoHistory

NextHistory ==
    \/ \E p \in Procs, version_group_id \in SuppliedVersionGroups \cup {""},
          schedule \in {NoSchedule, UtcSchedule}, set_active \in BOOLEAN :
            create_flow(p, SimpleFlow(schedule), "proj", version_group_id, set_active)
    \/ \E p \in Procs : cf_group_find(p)
    \/ \E p \in Procs : cf_group_insert(p)
    \/ \E p \in Procs : cf_version(p)
    \/ \E p \in Procs : cf_insert(p)
    \/ \E p \in Procs : sfr_query(p)
    \/ \E p \in Procs : sfr_create(p)
    \/ \E p \in Procs : sfr_update(p)
    \/ \E p \in Procs, flow_id \in 1..(MaxFlows + 1) : delete_flow(p, flow_id)

SpecHistory == InitHistory /\ [][NextHistory]_vars

\* C18: the version create_flow assigns in a version group is greater than
\* every version create_flow assigned in that group before, whether or not
\* flows of the group were deleted in between.
C18_VersionsNeverReused ==
    [][\A p \in Procs :
          (pc[p] = "cf_insert" /\ pc'[p] # "cf_insert")
             => \A x \in flows' \ flows : \A h \in history.assigned :
                   (h.tenant_id = x.tenant_id /\ h.version_group_id = x.version_group_id)
                      => x.version > h.version]_vars

\* ----------------------------------------------------- stopped passes
\* schedule_flow_runs calls on a registered flow, one after the other, any
\* of which may stop at one of its awaits, while time passes.
InitResume ==
    \E schedule \in {UtcSchedule, ZonedSchedule} :
       /\ flows = {Registered(1, schedule, TRUE)}
       /\ flow_groups = {[id |-> 1, tenant_id |-> Tenant, name |-> "vgA",
                          schedule |-> NoSchedule, settings |-> DefaultSettings]}
       /\ flow_runs = {}
       /\ next_id = [flow |-> 2, group |-> 2, run |-> 1, uuid |-> 1]
       /\ now = 0
       /\ pc = [p \in Procs |-> "idle"]
       /\ loc = [p \in Procs |-> IdleLoc]
       /\ returned = NoReturn
       /\ budget = [serial |-> TRUE, create |-> 0, other |-> MaxPasses + 1, edits |-> 0]
       /\ history = Registry(flows)

NextResume ==
    \/ \E p \in Procs, max_runs \in {NoneInt, 1} : schedule_flow_runs(p, 1, max_runs)
    \/ \E p \in Procs : sfr_create(p)
    \/ \E p \in Procs : sfr_update(p)
    \/ \E p \in Procs : sfr_stop(p)
    \/ Tick

SpecResume == InitResume /\ [][NextResume]_vars

\* Caller p's pass stops in this step.
Stops(p) ==
    /\ pc[p] \in {"sfr_create", "sfr_update"}
    /\ pc'[p] = "idle"
    /\ returned'.tag = "Exception"

Unarchives(p, id) ==
    /\ pc[p] = "idle"
    /\ \/ pc'[p] = "ssa_update" /\ loc'[p].flow_id = id
       \/ returned'.by = p /\ returned'.op = "unarchive_flow" /\ returned'.id = id

\* C16: unarchive_flow on an archived flow sets archived = false and goes
\* on to the materialization pass if and only if the flow's
\* is_schedule_active was true when the flow was archived; when it was
\* false the call returns at once and creates no FlowRun.
C16_UnarchivePass ==
    [][\A p \in Procs : \A x \in flows :
          (x.archived /\ Unarchives(p, x.id))
             => /\ \E y \in flows' : y.id = x.id /\ ~y.archived
                /\ pc'[p] = "ssa_update" <=> x.id \in history.archived_active
                /\ x.id \notin history.archived_active
                      => pc'[p] = "idle" /\ flow_runs' = flow_runs]_vars

\* ----------------------------------------------------- cancelled flows
\* C21: whenever no call is in progress, an archived flow has no Scheduled
\* FlowRun that schedule_flow_runs created and a flow whose
\* is_schedule_active is false has no Scheduled FlowRun marked
\* auto_scheduled, also after archive_flow or set_schedule_inactive ran
\* while a pass that had got past its flow query was creating or marking
\* its runs.
C21_CancelledFlowsHaveNoRuns ==
    (\A p \in Procs : pc[p] = "idle")
       => \A x \in flows : \A r \in flow_runs :
             (r.flow_id = x.id /\ r.state = "Scheduled")
                => /\ x.archived => r.idempotency_key.prefix # "auto-scheduled:"
                   /\ ~x.is_schedule_active => ~r.auto_scheduled

\* ------------------------------------------------------ heartbeat keys
HeartbeatToggles == {"enable_heartbeat_for_flow", "disable_heartbeat_for_flow"}

\* C22: once a heartbeat toggle has completed on a flow and no toggle is in
\* progress, the settings of the flow's group have heartbeat_enabled = not
\* disable_heartbeat, however the enable_heartbeat_for_flow and
\* disable_heartbeat_for_flow calls made on the flow were interleaved.
C22_HeartbeatKeysAgree ==
    (/\ \A p \in Procs : pc[p] = "idle"
     /\ history.toggled # <<>>
     /\ Range(history.toggled) \subseteq HeartbeatToggles)
       => \A g \in flow_groups :
             /\ "disable_heartbeat" \in DOMAIN g.settings
             /\ g.settings["heartbeat_enabled"] = ~g.settings["disable_heartbeat"]

=============================================================================
